---- MODULE Spec2Model ----
(***************************************************************************)
(* EXIF-GPS-DateTime-Fix: the timezone offset conversion, the EXIF         *)
(* timestamp decoding and encoding of utils.py, and the worklist loop of   *)
(* main.py.                                                                *)
(*                                                                         *)
(* Text is modelled as a sequence of one-character strings, so that        *)
(* parsing, padding and formatting are computed character by character.    *)
(* A Python exception is the record [exc |-> <its class>].                 *)
(***************************************************************************)
EXTENDS Integers, Sequences, FiniteSets, TLC

VARIABLES
    mode,             \* which entry point the behaviour exercises
    libcpads,         \* the platform: does the C library's %Y pad to 4 digits
    tzin,             \* the text handed last to tzoffset_to_timedelta
    tzout,            \* its result: a timedelta, an exception, or Pending
    localin,          \* a decoded DateTimeOriginal to convert to UTC
    utcout,           \* the UTC timestamp computed from localin and tzin
    tagsin,         \* the tag dictionary of the file handed to utils.py
    decoded,          \* result of getdatetime on tagsin
    newdt,      \* the timestamp handed to setgpsdatetime
    written,          \* the tag dictionary setgpsdatetime leaves in the file
    applied,          \* history: the file's tags after each correction of it
    args,             \* main: the parsed command line
    tree,             \* main: the directories and files that exist
    files,            \* main: the content of every file, as piexif loads it
    pc,               \* main: where the program is waiting or has ended
    pathlist,         \* main: the worklist
    path,             \* main: the path popped last
    lasttz,           \* main: the offset text used last
    tzstr,            \* main: the offset text of the current file
    originaldatetime, \* main: the decoded DateTimeOriginal of the current file
    utcdatetime,      \* main: the new GPS timestamp of the current file
    agreement,        \* main: the last answer to the disclaimer prompt
    replaceinput,     \* main: the last answer to the replace prompt
    outcome,          \* main: what the last step printed
    presented,        \* history: how often each file was shown (line 203)
    repeats,          \* history: how many Repeat answers were given
    systz             \* main: time.strftime('%z'), the system's offset text

purevars == <<libcpads, tzin, tzout, localin, utcout,
              tagsin, decoded, newdt, written, applied>>

mainvars == <<args, tree, files, pc, pathlist, path, lasttz, tzstr,
              originaldatetime, utcdatetime, replaceinput, outcome,
              presented, repeats, systz, agreement>>

\* the utils.py state other than the offset conversion's
codecvars == <<libcpads, localin, utcout, tagsin, decoded, newdt, written, applied>>

vars == <<mode, purevars, mainvars>>

----------------------------------------------------------------------------
(* Characters and text                                                     *)

Digits == {"0", "1", "2", "3", "4", "5", "6", "7", "8", "9"}

DigitSeq == <<"0", "1", "2", "3", "4", "5", "6", "7", "8", "9">>

\* int() of one decimal digit
DigitVal(c) == (CHOOSE i \in 1..10 : DigitSeq[i] = c) - 1

IsDigits(s) == \A i \in 1..Len(s) : s[i] \in Digits

\* int() of a text of decimal digits
RECURSIVE IntOf(_)
IntOf(s) ==
    IF Len(s) = 0 THEN 0
    ELSE 10 * IntOf(SubSeq(s, 1, Len(s) - 1)) + DigitVal(s[Len(s)])

\* Python's s[a:b] for 0 <= a <= b
Slice(s, a, b) ==
    SubSeq(s, a + 1, IF b > Len(s) THEN Len(s) ELSE b)

\* str.strip(c) for a single character c: drops every leading and trailing c
RECURSIVE LStrip(_, _)
LStrip(s, c) ==
    IF Len(s) > 0 /\ s[1] = c THEN LStrip(Tail(s), c) ELSE s

RECURSIVE RStrip(_, _)
RStrip(s, c) ==
    IF Len(s) > 0 /\ s[Len(s)] = c
    THEN RStrip(SubSeq(s, 1, Len(s) - 1), c) ELSE s

Strip(s, c) == RStrip(LStrip(s, c), c)

----------------------------------------------------------------------------
(* utils.py: the timezone pattern and tzoffset_to_timedelta                *)

\* '^[+-][0-2][0-9][0-5][0-9]$' as the sequence of its character classes
REGEX_TIMEZONE ==
    << {"+", "-"}, {"0", "1", "2"}, Digits, {"0", "1", "2", "3", "4", "5"}, Digits >>

\* re.search / re.match of an anchored pattern ^c1..cn$ without re.MULTILINE:
\* '^' matches at the start only, '$' at the end of the text or just before
\* a newline that ends the text.
re_search(pattern, s) ==
    /\ \/ Len(s) = Len(pattern)
       \/ Len(s) = Len(pattern) + 1 /\ s[Len(s)] = "\n"
    /\ \A i \in 1..Len(pattern) : s[i] \in pattern[i]

SECONDS_PER_DAY == 24 * 60 * 60

\* datetime.timedelta(seconds=n): normalised to days and 0 <= seconds < 86400
timedelta(n) ==
    [days |-> n \div SECONDS_PER_DAY, seconds |-> n % SECONDS_PER_DAY]

\* the total of a timedelta in seconds
total_seconds(delta) == delta.days * SECONDS_PER_DAY + delta.seconds

tzoffset_to_timedelta_nosign(timezone) ==
    IF ~ re_search(REGEX_TIMEZONE, timezone)
    THEN [exc |-> "ValueError"]
    ELSE LET timearr == Strip(Strip(timezone, "+"), "-")
             hours   == IntOf(Slice(timearr, 0, 2))
             minutes == IntOf(Slice(timearr, 2, 4))
             offset  == (hours * 60 * 60) + (minutes * 60)
         IN  timedelta(offset)

tzoffset_to_timedelta(timezone) ==
    IF ~ re_search(REGEX_TIMEZONE, timezone)
    THEN [exc |-> "ValueError"]
    ELSE LET timearr == Strip(Strip(timezone, "+"), "-")
             hours   == IntOf(Slice(timearr, 0, 2))
             minutes == IntOf(Slice(timearr, 2, 4))
             offset  == (hours * 60 * 60) + (minutes * 60)
         IN  timedelta(IF timezone[1] = "-" THEN -offset ELSE offset)

Raised(r) == "exc" \in DOMAIN r

\* the value of a result that has not been computed yet
Pending == [pending |-> TRUE]

----------------------------------------------------------------------------
(* The proleptic Gregorian calendar of Python's datetime, which            *)
(* datetime.strptime, datetime.strftime and datetime - timedelta rest on   *)

MINYEAR == 1

MAXYEAR == 9999

DAYS_IN_MONTH == <<31, 28, 31, 30, 31, 30, 31, 31, 30, 31, 30, 31>>

DAYS_BEFORE_MONTH == <<0, 31, 59, 90, 120, 151, 181, 212, 243, 273, 304, 334>>

is_leap(year) == year % 4 = 0 /\ (year % 100 # 0 \/ year % 400 = 0)

days_before_year(year) ==
    LET y == year - 1
    IN  y * 365 + (y \div 4) - (y \div 100) + (y \div 400)

days_in_month(year, month) ==
    IF month = 2 /\ is_leap(year) THEN 29 ELSE DAYS_IN_MONTH[month]

days_before_month(year, month) ==
    DAYS_BEFORE_MONTH[month] + (IF month > 2 /\ is_leap(year) THEN 1 ELSE 0)

\* date.toordinal(): 0001-01-01 is day 1
ymd2ord(year, month, day) ==
    days_before_year(year) + days_before_month(year, month) + day

DI400Y == days_before_year(401)

DI100Y == days_before_year(101)

DI4Y == days_before_year(5)

MAXORDINAL == ymd2ord(MAXYEAR, 12, 31)

\* date.fromordinal(n)
ord2ymd(ordinal) ==
    LET n0   == ordinal - 1
        n400 == n0 \div DI400Y
        r400 == n0 % DI400Y
        n100 == r400 \div DI100Y
        r100 == r400 % DI100Y
        n4   == r100 \div DI4Y
        r4   == r100 % DI4Y
        n1   == r4 \div 365
        n    == r4 % 365
        year == n400 * 400 + 1 + n100 * 100 + n4 * 4 + n1
    IN  IF n1 = 4 \/ n100 = 4
        THEN [year |-> year - 1, month |-> 12, day |-> 31]
        ELSE LET leapyear == n1 = 3 /\ (n4 # 24 \/ n100 = 3)
                 leapday(m) == IF m > 2 /\ leapyear THEN 1 ELSE 0
                 guess == (n + 50) \div 32
                 over  == DAYS_BEFORE_MONTH[guess] + leapday(guess) > n
                 month == IF over THEN guess - 1 ELSE guess
                 preceding == DAYS_BEFORE_MONTH[month] + leapday(month)
             IN  [year |-> year, month |-> month, day |-> n - preceding + 1]

\* datetime(year, month, day, hour, minute, second): ValueError outside the
\* calendar's ranges
datetime(year, month, day, hour, minute, second) ==
    IF /\ year \in MINYEAR..MAXYEAR
       /\ month \in 1..12
       /\ day \in 1..days_in_month(year, month)
       /\ hour \in 0..23
       /\ minute \in 0..59
       /\ second \in 0..59
    THEN [year |-> year, month |-> month, day |-> day,
          hour |-> hour, minute |-> minute, second |-> second]
    ELSE [exc |-> "ValueError"]

\* datetime.__add__(timedelta), with days and seconds kept apart as
\* timedelta keeps them: OverflowError outside 0001-01-01 .. 9999-12-31
datetime_add(dt, delta) ==
    LET secs == dt.hour * 3600 + dt.minute * 60 + dt.second + delta.seconds
        days == ymd2ord(dt.year, dt.month, dt.day) + delta.days
                    + (secs \div SECONDS_PER_DAY)
        rem  == secs % SECONDS_PER_DAY
        date == ord2ymd(days)
    IN  IF 0 < days /\ days <= MAXORDINAL
        THEN [year |-> date.year, month |-> date.month, day |-> date.day,
              hour |-> rem \div 3600, minute |-> (rem % 3600) \div 60,
              second |-> rem % 60]
        ELSE [exc |-> "OverflowError"]

\* timedelta.__neg__
timedelta_neg(delta) ==
    timedelta(-(delta.days * SECONDS_PER_DAY + delta.seconds))

\* datetime.__sub__(timedelta): self + -other
datetime_sub(dt, delta) == datetime_add(dt, timedelta_neg(delta))

----------------------------------------------------------------------------
(* Text operations of utils.py                                             *)

\* str.split(sep) for a single character sep
RECURSIVE Split(_, _)
Split(s, sep) ==
    IF \A i \in 1..Len(s) : s[i] # sep
    THEN << s >>
    ELSE LET i == CHOOSE k \in 1..Len(s) :
                      s[k] = sep /\ \A j \in 1..(k - 1) : s[j] # sep
         IN  << SubSeq(s, 1, i - 1) >> \o Split(SubSeq(s, i + 1, Len(s)), sep)

\* str.replace(old, new) for single characters
Replace(s, old, new) == [i \in 1..Len(s) |-> IF s[i] = old THEN new ELSE s[i]]

\* sep.join(parts)
RECURSIVE Join(_, _)
Join(parts, sep) ==
    IF Len(parts) = 0 THEN << >>
    ELSE IF Len(parts) = 1 THEN parts[1]
    ELSE parts[1] \o << sep >> \o Join(Tail(parts), sep)

\* str(n) for n >= 0
RECURSIVE Str(_)
Str(n) ==
    IF n < 10 THEN << DigitSeq[n + 1] >>
    ELSE Str(n \div 10) \o << DigitSeq[(n % 10) + 1] >>

\* '{0:0>w}'.format(s): zeros on the left up to width w, never truncating
RECURSIVE ZeroFill(_, _)
ZeroFill(s, w) == IF Len(s) >= w THEN s ELSE ZeroFill(<< "0" >> \o s, w)

\* The directives of DATETIME_FORMAT, '%Y-%m-%d %H:%M:%S', as the regular
\* expressions strptime compiles them to; between the separators of the
\* format a field is a run of digits that one alternative matches whole.
Matches_Y(f) == Len(f) = 4 /\ IsDigits(f)                   \* \d\d\d\d

Matches_m(f) ==                                             \* 1[0-2]|0[1-9]|[1-9]
    \/ Len(f) = 2 /\ f[1] = "1" /\ f[2] \in {"0", "1", "2"}
    \/ Len(f) = 2 /\ f[1] = "0" /\ f[2] \in (Digits \ {"0"})
    \/ Len(f) = 1 /\ f[1] \in (Digits \ {"0"})

Matches_d(f) ==                                             \* 3[0-1]|[1-2]\d|0[1-9]|[1-9]
    \/ Len(f) = 2 /\ f[1] = "3" /\ f[2] \in {"0", "1"}
    \/ Len(f) = 2 /\ f[1] \in {"1", "2"} /\ f[2] \in Digits
    \/ Len(f) = 2 /\ f[1] = "0" /\ f[2] \in (Digits \ {"0"})
    \/ Len(f) = 1 /\ f[1] \in (Digits \ {"0"})

Matches_H(f) ==                                             \* 2[0-3]|[0-1]\d|\d
    \/ Len(f) = 2 /\ f[1] = "2" /\ f[2] \in {"0", "1", "2", "3"}
    \/ Len(f) = 2 /\ f[1] \in {"0", "1"} /\ f[2] \in Digits
    \/ Len(f) = 1 /\ f[1] \in Digits

Matches_M(f) ==                                             \* [0-5]\d|\d
    \/ Len(f) = 2 /\ f[1] \in {"0", "1", "2", "3", "4", "5"} /\ f[2] \in Digits
    \/ Len(f) = 1 /\ f[1] \in Digits

Matches_S(f) ==                                             \* 6[0-1]|[0-5]\d|\d
    \/ Len(f) = 2 /\ f[1] = "6" /\ f[2] \in {"0", "1"}
    \/ Matches_M(f)

\* datetime.strptime(text, DATETIME_FORMAT) for a text of ASCII characters
\* with no white space other than single spaces: the whole text must match, then the fields
\* must make a date and a time of the calendar. ValueError otherwise.
strptime(text) ==
    LET halves == Split(text, " ")
        ymd    == Split(halves[1], "-")
        hms    == Split(halves[2], ":")
    IN  IF /\ Len(halves) = 2
           /\ Len(ymd) = 3
           /\ Len(hms) = 3
           /\ Matches_Y(ymd[1]) /\ Matches_m(ymd[2]) /\ Matches_d(ymd[3])
           /\ Matches_H(hms[1]) /\ Matches_M(hms[2]) /\ Matches_S(hms[3])
        THEN datetime(IntOf(ymd[1]), IntOf(ymd[2]), IntOf(ymd[3]),
                      IntOf(hms[1]), IntOf(hms[2]), IntOf(hms[3]))
        ELSE [exc |-> "ValueError"]

\* dt.strftime(DATETIME_FORMAT). %m %d %H %M %S are two digits wide; %Y is
\* the C library's: four digits wide where it pads, unpadded below year
\* 1000 where it does not (glibc).
strftime(dt, padsyear) ==
    Join(<< IF padsyear THEN ZeroFill(Str(dt.year), 4) ELSE Str(dt.year),
            ZeroFill(Str(dt.month), 2),
            ZeroFill(Str(dt.day), 2) >>, "-")
    \o << " " >> \o
    Join(<< ZeroFill(Str(dt.hour), 2),
            ZeroFill(Str(dt.minute), 2),
            ZeroFill(Str(dt.second), 2) >>, ":")

\* datetime_to_str(dt): the 'date' and 'time' halves shown to the user
datetime_to_str(dt, padsyear) ==
    LET dtarr == Split(strftime(dt, padsyear), " ")
    IN  [date |-> dtarr[1], time |-> dtarr[2]]

----------------------------------------------------------------------------
(* EXIF tag dictionaries: piexif.load gives one dictionary per IFD, each a *)
(* function from tag numbers to values                                     *)

EXIF_DATE_TIME_ORIGINAL == 36867        \* 0x9003

EXIF_GPS_DATE == 29                     \* 0x001D

EXIF_GPS_TIME == 7                      \* 0x0007

\* d[key] = value on a Python dict
DictSet(d, key, value) ==
    [k \in (DOMAIN d) \cup {key} |-> IF k = key THEN value ELSE d[k]]

\* getdatetime, from the loaded dictionary on: KeyError for a missing tag,
\* IndexError for a DateTimeOriginal without a space, ValueError from
\* strptime. Only the numerators t[i][1] of the GPS time are read.
getdatetime(exifdict) ==
    IF \/ EXIF_DATE_TIME_ORIGINAL \notin DOMAIN exifdict.Exif
       \/ EXIF_GPS_DATE \notin DOMAIN exifdict.GPS
       \/ EXIF_GPS_TIME \notin DOMAIN exifdict.GPS
    THEN [exc |-> "KeyError"]
    ELSE
    LET b_datetimeoriginal == exifdict.Exif[EXIF_DATE_TIME_ORIGINAL]
        b_gpsdate == exifdict.GPS[EXIF_GPS_DATE]
        t_gpstime == exifdict.GPS[EXIF_GPS_TIME]
        datetimeoriginal == Split(b_datetimeoriginal, " ")
    IN  IF Len(datetimeoriginal) < 2 THEN [exc |-> "IndexError"]
        ELSE
        LET originald == Replace(datetimeoriginal[1], ":", "-")
            originalt == datetimeoriginal[2]
            gpsd == Replace(b_gpsdate, ":", "-")
            gpst == Join(<< ZeroFill(Str(t_gpstime[1][1]), 2),
                            ZeroFill(Str(t_gpstime[2][1]), 2),
                            ZeroFill(Str(t_gpstime[3][1]), 2) >>, ":")
            parsedoriginal == strptime(originald \o << " " >> \o originalt)
            parsedgps == strptime(gpsd \o << " " >> \o gpst)
        IN  IF Raised(parsedoriginal) THEN parsedoriginal
            ELSE IF Raised(parsedgps) THEN parsedgps
            ELSE [originaldatetime |-> parsedoriginal,
                  gpsdatetime |-> parsedgps]

gpsdate_of_dashes(newdatetime, padsyear) ==
    Split(strftime(newdatetime, padsyear), " ")[1]

\* setgpsdatetime, the GPSDateStamp value it builds
gpsdate_of(newdatetime, padsyear) ==
    LET datetimestr == Split(strftime(newdatetime, padsyear), " ")
    IN  Replace(datetimestr[1], "-", ":")

\* setgpsdatetime, the GPSTimeStamp value it builds
gpstime_of(newdatetime, padsyear) ==
    LET datetimestr == Split(strftime(newdatetime, padsyear), " ")
        gpstime == Split(datetimestr[2], ":")
    IN  << <<IntOf(gpstime[1]), 1>>, <<IntOf(gpstime[2]), 1>>,
           <<IntOf(gpstime[3]), 1>> >>

setgpsdatetime_alltags(exifdict, newdatetime, padsyear) ==
    [exifdict EXCEPT
        !.Exif = DictSet(exifdict.Exif, EXIF_DATE_TIME_ORIGINAL,
                         Replace(strftime(newdatetime, padsyear), "-", ":")),
        !.GPS = DictSet(DictSet(exifdict.GPS, EXIF_GPS_DATE,
                                gpsdate_of(newdatetime, padsyear)),
                        EXIF_GPS_TIME, gpstime_of(newdatetime, padsyear))]

\* setgpsdatetime: the dictionary it loads, changes, dumps and inserts
\* into the file, which is also what it returns
setgpsdatetime(exifdict, newdatetime, padsyear) ==
    [exifdict EXCEPT
        !.GPS = DictSet(DictSet(exifdict.GPS, EXIF_GPS_DATE,
                                gpsdate_of(newdatetime, padsyear)),
                        EXIF_GPS_TIME, gpstime_of(newdatetime, padsyear))]

----------------------------------------------------------------------------
(* main.py, lines 217-218: the UTC timestamp of a file                     *)

utc_of_added(original, tz) ==
    LET tzdelta == tzoffset_to_timedelta(tz)
    IN  IF Raised(tzdelta) THEN tzdelta
        ELSE datetime_add(original, tzdelta)

\* tzdelta = utils.tzoffset_to_timedelta(tzstr);
\* utcdatetime = originaldatetime - tzdelta
utc_of(original, tz) ==
    LET tzdelta == tzoffset_to_timedelta(tz)
    IN  IF Raised(tzdelta) THEN tzdelta
        ELSE datetime_sub(original, tzdelta)

----------------------------------------------------------------------------
(* SpecTz: tzoffset_to_timedelta on every text up to TzMaxLen characters   *)

TzMaxLen == 5

\* both signs; digits on both sides of every class boundary of the pattern
TzAlphabet == {"+", "-", "0", "2", "3", "5", "6", "8", "9"}

TzTexts ==
    LET core == UNION { [1..n -> TzAlphabet] : n \in 0..TzMaxLen }
    IN  core \cup { Append(s, "\n") : s \in core }

\* the state of main.py while only utils.py is exercised
MainIdle ==
    /\ args = Pending
    /\ tree = {}
    /\ files = << >>
    /\ pc = "idle"
    /\ pathlist = << >>
    /\ path = << >>
    /\ lasttz = << >>
    /\ tzstr = << >>
    /\ originaldatetime = Pending
    /\ utcdatetime = Pending
    /\ replaceinput = << >>
    /\ outcome = "none"
    /\ presented = << >>
    /\ repeats = 0
    /\ systz = << >>
    /\ agreement = << >>

\* the state of the utils.py entry points while main.py runs
PureIdle ==
    /\ tzin = << >>
    /\ tzout = Pending
    /\ localin = Pending
    /\ utcout = Pending
    /\ tagsin = Pending
    /\ decoded = Pending
    /\ newdt = Pending
    /\ written = Pending
    /\ applied = << >>

InitTz ==
    /\ MainIdle
    /\ mode = "tz"
    /\ tzin \in TzTexts
    /\ libcpads = TRUE
    /\ tzout = Pending
    /\ localin = Pending
    /\ utcout = Pending
    /\ tagsin = Pending
    /\ decoded = Pending
    /\ newdt = Pending
    /\ written = Pending
    /\ applied = << >>

CallTz ==
    /\ mode = "tz"
    /\ tzout = Pending
    /\ tzout' = tzoffset_to_timedelta(tzin)
    /\ UNCHANGED <<mode, libcpads, tzin, localin, utcout,
                   tagsin, decoded, newdt, written, applied, mainvars>>

NextTz == CallTz

SpecTz == InitTz /\ [][NextTz]_vars

----------------------------------------------------------------------------
(* SpecUtc: the UTC conversion of main.py on timestamps around the ends of *)
(* days, months, years, leap days and the calendar, and every offset text  *)
(* the pattern accepts over the chosen hours and minutes                   *)

UtcDates ==
    { <<1, 1, 1>>, <<1, 1, 2>>, <<2000, 2, 29>>, <<2023, 2, 28>>,
      <<2023, 3, 1>>, <<2023, 6, 1>>, <<2023, 12, 31>>, <<2024, 1, 1>>,
      <<2024, 2, 28>>, <<2024, 2, 29>>, <<2024, 3, 1>>, <<2100, 2, 28>>,
      <<2100, 3, 1>>, <<9999, 12, 30>>, <<9999, 12, 31>> }

UtcTimes == { <<0, 0, 0>>, <<0, 30, 0>>, <<14, 0, 0>>, <<23, 59, 59>> }

UtcLocals ==
    { datetime(d[1], d[2], d[3], t[1], t[2], t[3]) : d \in UtcDates, t \in UtcTimes }

UtcOffsets ==
    { << sg, h[1], h[2], m[1], m[2] >> :
        sg \in {"+", "-"},
        h \in { <<"0", "0">>, <<"0", "5">>, <<"0", "7">>, <<"0", "9">>,
                <<"1", "0">>, <<"1", "4">>, <<"2", "3">>, <<"2", "4">>,
                <<"2", "9">> },
        m \in { <<"0", "0">>, <<"3", "0">>, <<"5", "9">> } }

InitUtc ==
    /\ MainIdle
    /\ mode = "utc"
    /\ localin \in UtcLocals
    /\ tzin \in UtcOffsets
    /\ libcpads \in BOOLEAN
    /\ tzout = Pending
    /\ utcout = Pending
    /\ tagsin = Pending
    /\ decoded = Pending
    /\ newdt = Pending
    /\ written = Pending
    /\ applied = << >>

CallUtc ==
    /\ mode = "utc"
    /\ utcout = Pending
    /\ utcout' = utc_of(localin, tzin)
    /\ UNCHANGED <<mode, libcpads, tzin, tzout, localin,
                   tagsin, decoded, newdt, written, applied, mainvars>>

NextUtc == CallUtc

SpecUtc == InitUtc /\ [][NextUtc]_vars

----------------------------------------------------------------------------
(* SpecCodec: getdatetime, then setgpsdatetime, on tag dictionaries        *)

MaxDen == 2

\* The tags of the end-to-end scenario
TEXT_ORIGINAL ==
    <<"2", "0", "2", "3", ":", "0", "6", ":", "0", "1", " ",
      "1", "4", ":", "0", "0", ":", "0", "0">>

TEXT_GPS_DATE == <<"2", "0", "2", "3", ":", "0", "6", ":", "0", "1">>

TUPLE_GPS_TIME == << <<5, 1>>, <<0, 1>>, <<0, 1>> >>

\* GPSDateStamp texts: padded and unpadded fields, a year below 1000, a
\* month and days outside the calendar, and separators other than ':'
GpsDateTexts ==
    { y \o << sep >> \o m \o << sep >> \o d :
        y \in { <<"2", "0", "2", "3">>, <<"0", "9", "9", "9">> },
        m \in { <<"6">>, <<"0", "6">>, <<"2">>, <<"1", "3">> },
        d \in { <<"1">>, <<"0", "1">>, <<"2", "9">> },
        sep \in { ":", "-", "/" } }

\* denominators: all 1, or one of the three anything in 0..MaxDen
DenTriples ==
    { dn \in [1..3 -> 0..MaxDen] : Cardinality({ i \in 1..3 : dn[i] # 1 }) <= 1 }

\* GPSTimeStamp values: numerators inside and just outside a day's ranges
GpsTimeTuples ==
    { << <<h, dn[1]>>, <<m, dn[2]>>, <<sec, dn[3]>> >> :
        h \in {0, 5, 23, 24}, m \in {7, 59, 60}, sec \in {0, 59},
        dn \in DenTriples }

\* DateTimeOriginal texts: well-formed, wrong date separator, no time half
OriginalTexts ==
    { TEXT_ORIGINAL,
      <<"2", "0", "2", "3", "/", "0", "6", "/", "0", "1", " ",
        "1", "4", ":", "0", "0", ":", "0", "0">>,
      TEXT_GPS_DATE }

\* a dictionary of one IFD from the tags that are present
Ifd(present, values) == [k \in present |-> values[k]]

TAG_MAKE == 271                         \* 0th IFD, Make

TAG_GPS_LATITUDE == 2                   \* GPS IFD, GPSLatitude

\* every GPS date and time under a well-formed DateTimeOriginal
DictsByValue ==
    { [Zeroth |-> << >>,
       Exif |-> (EXIF_DATE_TIME_ORIGINAL :> TEXT_ORIGINAL),
       GPS |-> (EXIF_GPS_DATE :> d @@ EXIF_GPS_TIME :> t)] :
        d \in GpsDateTexts, t \in GpsTimeTuples }

\* every combination of present and absent tags around the scenario's values
DictsByShape ==
    { [Zeroth |-> Ifd(z, (TAG_MAKE :> <<"X">>)),
       Exif |-> Ifd(e, (EXIF_DATE_TIME_ORIGINAL :> o)),
       GPS |-> Ifd(g, (EXIF_GPS_DATE :> TEXT_GPS_DATE
                       @@ EXIF_GPS_TIME :> TUPLE_GPS_TIME
                       @@ TAG_GPS_LATITUDE :> << <<48, 1>>, <<51, 1>>, <<0, 1>> >>))] :
        z \in SUBSET {TAG_MAKE},
        e \in SUBSET {EXIF_DATE_TIME_ORIGINAL},
        o \in OriginalTexts,
        g \in SUBSET {EXIF_GPS_DATE, EXIF_GPS_TIME, TAG_GPS_LATITUDE} }

TagDicts == DictsByValue \cup DictsByShape

\* timestamps a caller may hand to setgpsdatetime
SetTimestamps ==
    { datetime(2023, 6, 1, 23, 0, 0), datetime(2024, 2, 29, 0, 0, 9),
      datetime(999, 12, 31, 7, 8, 0) }

InitCodec ==
    /\ MainIdle
    /\ mode = "codec"
    /\ tagsin \in TagDicts
    /\ libcpads \in BOOLEAN
    /\ tzin = << >>
    /\ tzout = Pending
    /\ localin = Pending
    /\ utcout = Pending
    /\ decoded = Pending
    /\ newdt = Pending
    /\ written = Pending
    /\ applied = << >>

CallGetdatetime ==
    /\ mode = "codec"
    /\ decoded = Pending
    /\ decoded' = getdatetime(tagsin)
    /\ UNCHANGED <<mode, libcpads, tzin, tzout, localin, utcout,
                   tagsin, newdt, written, applied, mainvars>>

\* setgpsdatetime with the decoded GPS timestamp or with any other one
CallSetgpsdatetime ==
    /\ mode = "codec"
    /\ decoded # Pending
    /\ written = Pending
    /\ \E nd \in SetTimestamps
                 \cup (IF Raised(decoded) THEN {} ELSE {decoded.gpsdatetime}) :
          /\ newdt' = nd
          /\ written' = setgpsdatetime(tagsin, nd, libcpads)
    /\ UNCHANGED <<mode, libcpads, tzin, tzout, localin, utcout,
                   tagsin, decoded, applied, mainvars>>

NextCodec == CallGetdatetime \/ CallSetgpsdatetime

SpecCodec == InitCodec /\ [][NextCodec]_vars

----------------------------------------------------------------------------
(* SpecApply: the correction of one file, applied again to its own result  *)

apply_from_gps(exifdict, tz, padsyear) ==
    LET datetimedict == getdatetime(exifdict)
    IN  IF Raised(datetimedict) THEN datetimedict
        ELSE LET utc == utc_of(datetimedict.gpsdatetime, tz)
             IN  IF Raised(utc) THEN utc
                 ELSE setgpsdatetime(exifdict, utc, padsyear)

\* main.py lines 194-218 followed by utils.setgpsdatetime with the
\* timestamp computed there (the call line 253 names): the tags the file
\* then holds, or the exception that ends the correction before any write
apply(exifdict, tz, padsyear) ==
    LET datetimedict == getdatetime(exifdict)
    IN  IF Raised(datetimedict) THEN datetimedict
        ELSE LET utc == utc_of(datetimedict.originaldatetime, tz)
             IN  IF Raised(utc) THEN utc
                 ELSE setgpsdatetime(exifdict, utc, padsyear)

MaxApplies == 2

\* DateTimeOriginal texts: the scenario, the last and first half hours of a
\* year, a leap day, a year below 1000, a wrong separator
ApplyOriginals ==
    { TEXT_ORIGINAL,
      <<"2", "0", "2", "3", ":", "1", "2", ":", "3", "1", " ",
        "2", "3", ":", "3", "0", ":", "0", "0">>,
      <<"2", "0", "2", "4", ":", "0", "1", ":", "0", "1", " ",
        "0", "0", ":", "1", "0", ":", "0", "9">>,
      <<"2", "0", "2", "4", ":", "0", "2", ":", "2", "9", " ",
        "1", "2", ":", "0", "0", ":", "0", "0">>,
      <<"0", "9", "9", "9", ":", "1", "2", ":", "3", "1", " ",
        "0", "7", ":", "0", "8", ":", "0", "0">>,
      <<"2", "0", "2", "3", "/", "0", "6", "/", "0", "1", " ",
        "1", "4", ":", "0", "0", ":", "0", "0">> }

\* GPS stamps before the correction: right, stale, unpadded, a rational
\* with denominator 2, and values getdatetime rejects
ApplyGpsDates ==
    { TEXT_GPS_DATE,
      <<"2", "0", "1", "9", ":", "0", "1", ":", "0", "1">>,
      <<"2", "0", "2", "3", ":", "6", ":", "1">>,
      <<"2", "0", "2", "3", "/", "0", "6", "/", "0", "1">> }

ApplyGpsTimes ==
    { TUPLE_GPS_TIME,
      << <<23, 1>>, <<59, 1>>, <<59, 1>> >>,
      << <<5, 2>>, <<0, 1>>, <<0, 1>> >>,
      << <<24, 1>>, <<0, 1>>, <<0, 1>> >> }

ApplyDicts ==
    { [Zeroth |-> (TAG_MAKE :> <<"X">>),
       Exif |-> (EXIF_DATE_TIME_ORIGINAL :> o),
       GPS |-> (EXIF_GPS_DATE :> d @@ EXIF_GPS_TIME :> t)] :
        o \in ApplyOriginals, d \in ApplyGpsDates, t \in ApplyGpsTimes }

InitApply ==
    /\ MainIdle
    /\ mode = "apply"
    /\ tagsin \in ApplyDicts
    /\ tzin \in UtcOffsets
    /\ libcpads \in BOOLEAN
    /\ tzout = Pending
    /\ localin = Pending
    /\ utcout = Pending
    /\ decoded = Pending
    /\ newdt = Pending
    /\ written = Pending
    /\ applied = << >>

\* one correction of the file as it now is, with the same offset text; an
\* exception ends the run and leaves the file as it was
Apply ==
    /\ mode = "apply"
    /\ Len(applied) < MaxApplies
    /\ ~ Raised(written)
    /\ LET current == IF applied = << >> THEN tagsin ELSE applied[Len(applied)]
           result == apply(current, tzin, libcpads)
       IN  /\ written' = result
           /\ applied' = IF Raised(result) THEN applied ELSE Append(applied, result)
    /\ UNCHANGED <<mode, libcpads, tzin, tzout, localin, utcout,
                   tagsin, decoded, newdt, mainvars>>

NextApply == Apply

SpecApply == InitApply /\ [][NextApply]_vars

----------------------------------------------------------------------------
(* main.py: the file system it walks                                       *)

\* A path is the sequence of its components; os.path.join appends one.
DirNames == {"D", "S"}

FileNames == {"a", "b", "f"}

\* the order in which a directory lists its entries
NameOrder == <<"D", "S", "a", "b", "f">>

\* D holds a and S, S holds b; f stands alone
AllNodes ==
    { <<"D">>, <<"D", "a">>, <<"D", "S">>, <<"D", "S", "b">>, <<"f">> }

AllFiles == { n \in AllNodes : n[Len(n)] \in FileNames }

\* every tree: each node that exists has its parent
Trees ==
    { t \in SUBSET AllNodes :
        \A n \in t : Len(n) > 1 => SubSeq(n, 1, Len(n) - 1) \in t }

\* piexif.load raises InvalidImageDataError on a file without EXIF data
NOEXIF == [invalid |-> TRUE]

\* what a file may hold: the end-to-end scenario, a DateTimeOriginal with
\* the wrong date separator, EXIF data without GPSDateStamp, no EXIF data
FileContents ==
    { [Zeroth |-> (TAG_MAKE :> <<"X">>),
       Exif |-> (EXIF_DATE_TIME_ORIGINAL :> TEXT_ORIGINAL),
       GPS |-> (EXIF_GPS_DATE :> TEXT_GPS_DATE @@ EXIF_GPS_TIME :> TUPLE_GPS_TIME)],
      [Zeroth |-> << >>,
       Exif |-> (EXIF_DATE_TIME_ORIGINAL :>
                    <<"2", "0", "2", "3", "/", "0", "6", "/", "0", "1", " ",
                      "1", "4", ":", "0", "0", ":", "0", "0">>),
       GPS |-> (EXIF_GPS_DATE :> TEXT_GPS_DATE @@ EXIF_GPS_TIME :> TUPLE_GPS_TIME)],
      [Zeroth |-> << >>,
       Exif |-> (EXIF_DATE_TIME_ORIGINAL :> TEXT_ORIGINAL),
       GPS |-> (EXIF_GPS_TIME :> TUPLE_GPS_TIME)],
      NOEXIF }

exists(p) == p \in tree

isdir(p) == p \in tree /\ p[Len(p)] \in DirNames

isfile(p) == p \in tree /\ p[Len(p)] \in FileNames

\* utils.isimage: piexif.load succeeds
isimage(p) == files[p] # NOEXIF

RECURSIVE Concat(_)
Concat(seqs) == IF Len(seqs) = 0 THEN << >> ELSE Head(seqs) \o Concat(Tail(seqs))

Listing(root, names) ==
    LET Here(n) == n \in names /\ Append(root, n) \in tree
    IN  SelectSeq(NameOrder, Here)

\* os.walk(top, topdown=True): one (root, dirnames, filenames) for top, then
\* those of each sub-directory in turn, to any depth
RECURSIVE walk(_)
walk(top) ==
    LET dirnames == Listing(top, DirNames)
    IN  << [root |-> top, dirnames |-> dirnames,
            filenames |-> Listing(top, FileNames)] >>
        \o Concat([i \in 1..Len(dirnames) |-> walk(Append(top, dirnames[i]))])

\* lines 180-190: what a directory adds to the worklist. For every file
\* name of every directory walked: the file if it is an image, then, with
\* --recursive, every sub-directory of that directory.
expansion(top, recursive) ==
    LET tmplist(w, filename) ==
            LET tmpfile == Append(w.root, filename)
            IN  (IF isfile(tmpfile) /\ isimage(tmpfile) THEN << tmpfile >> ELSE << >>)
                \o (IF recursive
                    THEN [i \in 1..Len(w.dirnames) |-> Append(w.root, w.dirnames[i])]
                    ELSE << >>)
        perroot(w) == Concat([j \in 1..Len(w.filenames) |-> tmplist(w, w.filenames[j])])
        walked == walk(top)
    IN  Concat([i \in 1..Len(walked) |-> perroot(walked[i])])

----------------------------------------------------------------------------
(* main.py: prompts and answers                                            *)

ANSWER_YES == <<"Y">>

ANSWER_NO == <<"N">>

ANSWER_REPEAT == <<"R">>

UpperChar(c) ==
    CASE c = "y" -> "Y" [] c = "n" -> "N" [] c = "r" -> "R" [] OTHER -> c

\* str.upper()
upper(s) == [i \in 1..Len(s) |-> UpperChar(s[i])]

replace_decision_default_yes(answer) ==
    IF upper(answer) = ANSWER_NO THEN "skip"
    ELSE IF upper(answer) = ANSWER_REPEAT THEN "repeat"
    ELSE "replace"

\* lines 231-242: what an answer to the replace prompt leads to
replace_decision(answer) ==
    IF upper(answer) = ANSWER_YES THEN "replace"
    ELSE IF upper(answer) = ANSWER_NO THEN "skip"
    ELSE IF upper(answer) = ANSWER_REPEAT THEN "repeat"
    ELSE "ask"

\* lines 251-253: the replace step prints MSG_RESP_REPLACE_Y; its call of
\* setgpsdatetime is commented out, so the file keeps the tags it had
replace_step(tags, utc) == tags

timezone_matches_unsigned(tz) ==
    re_search(REGEX_TIMEZONE, tz) \/ (Len(tz) = 4 /\ IsDigits(tz))

\* lines 120 and 212: re.search and re.match of REGEX_TIMEZONE; the pattern
\* starts with '^', so both accept the same texts
timezone_matches(tz) == re_search(REGEX_TIMEZONE, tz)

\* what the user may type at a yes/no prompt
YesNoAnswers == { <<"Y">>, <<"y">>, <<"N">>, <<"R">>, <<"X">>, << >> }

\* what the user may type at the timezone prompt: nothing, two offsets,
\* an offset without its sign
TimezoneAnswers ==
    { << >>, <<"-", "0", "9", "0", "0">>, <<"+", "0", "5", "3", "0">>,
      <<"0", "8", "0", "0">> }

\* --timezone: not given, given, given without its sign
TimezoneArgs ==
    { << >>, <<"-", "0", "9", "0", "0">>, <<"0", "8", "0", "0">> }

\* time.strftime('%z'): an offset, or no characters where the platform
\* cannot determine the time zone
SystemOffsets ==
    { <<"+", "0", "0", "0", "0">>, <<"-", "0", "7", "0", "0">>, << >> }

\* the positional arguments: a directory, a file, both, a path that does
\* not exist before a directory
PathLists ==
    { << <<"D">> >>, << <<"f">> >>, << <<"D">>, <<"f">> >>,
      << <<"f">>, <<"D">> >>, << <<"nope">>, <<"D">> >> }

MaxRepeats == 1

----------------------------------------------------------------------------
(* main.py: the program                                                    *)

InitMain ==
    /\ mode = "main"
    /\ PureIdle
    /\ libcpads = TRUE
    /\ args \in [auto : BOOLEAN, recursive : BOOLEAN,
                 timezone : TimezoneArgs, pathlist : PathLists]
    /\ tree \in Trees
    /\ files \in [AllFiles \cap tree -> FileContents]
    /\ systz \in SystemOffsets
    /\ pc = "start"
    /\ pathlist = << >>
    /\ path = << >>
    /\ lasttz = << >>
    /\ tzstr = << >>
    /\ originaldatetime = Pending
    /\ utcdatetime = Pending
    /\ replaceinput = << >>
    /\ outcome = "none"
    /\ presented = [f \in AllFiles |-> 0]
    /\ repeats = 0
    /\ agreement = << >>

\* lines 172-173, reached once the disclaimer is agreed to and the backup
\* copies are made
EnterLoop ==
    /\ lasttz' = (IF args.timezone # << >> THEN args.timezone ELSE systz)
    /\ pathlist' = args.pathlist
    /\ pc' = "loop"

\* lines 116-133: the argument checks, then the disclaimer
Start ==
    /\ mode = "main" /\ pc = "start"
    /\ IF \/ args.auto /\ args.timezone = << >>
          \/ args.timezone # << >> /\ ~ timezone_matches(args.timezone)
       THEN pc' = "usage" /\ UNCHANGED <<lasttz, pathlist>>
       ELSE IF args.auto
       THEN EnterLoop
       ELSE pc' = "disclaimer" /\ UNCHANGED <<lasttz, pathlist>>
    /\ UNCHANGED <<mode, purevars, args, tree, files, path, tzstr,
                   originaldatetime, utcdatetime, replaceinput, outcome,
                   presented, repeats, systz, agreement>>

\* lines 133-142: the disclaimer prompt
AnswerDisclaimer ==
    /\ mode = "main" /\ pc = "disclaimer"
    /\ \E typed \in YesNoAnswers :
          /\ agreement' = typed
          /\ IF upper(typed) = ANSWER_YES
             THEN EnterLoop
             ELSE IF upper(typed) = ANSWER_NO
             THEN pc' = "declined" /\ UNCHANGED <<lasttz, pathlist>>
             ELSE UNCHANGED <<pc, lasttz, pathlist>>
    /\ UNCHANGED <<mode, purevars, args, tree, files, path, tzstr,
                   originaldatetime, utcdatetime, replaceinput, outcome,
                   presented, repeats, systz>>

\* lines 216-253 once the offset text tz of the file is settled, for the
\* decoded original timestamp: the new GPS timestamp, then the replace step
\* under --auto and the replace prompt otherwise. An exception of the
\* subtraction is not caught.
Settle(original, tz) ==
    LET utc == utc_of(original, tz)
    IN  /\ lasttz' = tz
        /\ tzstr' = tz
        /\ tzin' = tz
        /\ tzout' = tzoffset_to_timedelta(tz)
        /\ IF Raised(utc)
           THEN /\ pc' = "crashed" /\ outcome' = utc.exc
                /\ UNCHANGED <<utcdatetime, files>>
           ELSE /\ utcdatetime' = utc
                /\ IF args.auto
                   THEN /\ pc' = "loop" /\ outcome' = "replaced"
                        /\ files' = [files EXCEPT ![path'] = replace_step(@, utc)]
                   ELSE /\ pc' = "replaceprompt" /\ outcome' = "asking"
                        /\ UNCHANGED files

\* lines 174-177: a path that does not exist
PopMissing ==
    /\ mode = "main" /\ pc = "loop" /\ Len(pathlist) > 0
    /\ ~ exists(Head(pathlist))
    /\ path' = Head(pathlist)
    /\ pathlist' = Tail(pathlist)
    /\ outcome' = "missing"
    /\ UNCHANGED <<mode, purevars, args, tree, files, pc, lasttz, tzstr,
                   originaldatetime, utcdatetime, replaceinput,
                   presented, repeats, systz, agreement>>

\* lines 179-190: a directory
PopDirectory ==
    /\ mode = "main" /\ pc = "loop" /\ Len(pathlist) > 0
    /\ isdir(Head(pathlist))
    /\ path' = Head(pathlist)
    /\ pathlist' = Tail(pathlist) \o expansion(Head(pathlist), args.recursive)
    /\ outcome' = "expanded"
    /\ UNCHANGED <<mode, purevars, args, tree, files, pc, lasttz, tzstr,
                   originaldatetime, utcdatetime, replaceinput,
                   presented, repeats, systz, agreement>>

\* lines 254-255: a file that is no image
PopNotImage ==
    /\ mode = "main" /\ pc = "loop" /\ Len(pathlist) > 0
    /\ isfile(Head(pathlist)) /\ ~ isimage(Head(pathlist))
    /\ path' = Head(pathlist)
    /\ pathlist' = Tail(pathlist)
    /\ outcome' = "notimage"
    /\ UNCHANGED <<mode, purevars, args, tree, files, pc, lasttz, tzstr,
                   originaldatetime, utcdatetime, replaceinput,
                   presented, repeats, systz, agreement>>

\* lines 191-216: an image. getdatetime's exceptions are not caught, here
\* or at line 262; otherwise the file is shown and, with --timezone, settled.
PopImage ==
    /\ mode = "main" /\ pc = "loop" /\ Len(pathlist) > 0
    /\ isfile(Head(pathlist)) /\ isimage(Head(pathlist))
    /\ path' = Head(pathlist)
    /\ pathlist' = Tail(pathlist)
    /\ LET datetimedict == getdatetime(files[Head(pathlist)])
       IN  IF Raised(datetimedict)
           THEN /\ pc' = "crashed" /\ outcome' = datetimedict.exc
                /\ UNCHANGED <<files, lasttz, tzstr, originaldatetime,
                               utcdatetime, presented, tzin, tzout>>
           ELSE /\ originaldatetime' = datetimedict.originaldatetime
                /\ presented' = [presented EXCEPT ![Head(pathlist)] = @ + 1]
                /\ IF args.timezone # << >>
                   THEN Settle(datetimedict.originaldatetime, lasttz)
                   ELSE /\ pc' = "tzprompt" /\ outcome' = "asking"
                        /\ UNCHANGED <<files, lasttz, tzstr, utcdatetime,
                                       tzin, tzout>>
    /\ UNCHANGED <<mode, codecvars, args, tree, replaceinput, repeats, systz, agreement>>

\* lines 210-215: an answer to the timezone prompt; an empty answer stands
\* for the offset used last, and a text the pattern rejects asks again
AnswerTimezone ==
    /\ mode = "main" /\ pc = "tzprompt"
    /\ \E typed \in TimezoneAnswers :
          LET tz == IF typed # << >> THEN typed ELSE lasttz
          IN  IF timezone_matches(tz)
              THEN Settle(originaldatetime, tz)
              ELSE /\ tzstr' = tz
                   /\ UNCHANGED <<pc, lasttz, utcdatetime, outcome, files,
                                  tzin, tzout>>
    /\ UNCHANGED <<mode, codecvars, args, tree, pathlist, path,
                   originaldatetime, replaceinput, presented, repeats, systz, agreement>>

\* lines 229-253: an answer to the replace prompt
AnswerReplace ==
    /\ mode = "main" /\ pc = "replaceprompt"
    /\ \E typed \in YesNoAnswers :
          /\ replaceinput' = typed
          /\ LET decision == replace_decision(typed)
             IN  /\ decision = "repeat" => repeats < MaxRepeats
                 /\ repeats' = IF decision = "repeat" THEN repeats + 1 ELSE repeats
                 /\ pathlist' = IF decision = "repeat"
                                THEN << path >> \o pathlist ELSE pathlist
                 /\ pc' = IF decision = "ask" THEN "replaceprompt" ELSE "loop"
                 /\ outcome' = CASE decision = "replace" -> "replaced"
                                 [] decision = "skip" -> "skipped"
                                 [] decision = "repeat" -> "repeat"
                                 [] OTHER -> "asking"
                 /\ files' = IF decision = "replace"
                             THEN [files EXCEPT ![path] = replace_step(@, utcdatetime)]
                             ELSE files
    /\ UNCHANGED <<mode, purevars, args, tree, path, lasttz, tzstr,
                   originaldatetime, utcdatetime, presented, systz, agreement>>

\* lines 264-269: end of input or an interrupt at a prompt
UserExit ==
    /\ mode = "main" /\ pc \in {"disclaimer", "tzprompt", "replaceprompt"}
    /\ pc' = "userexit"
    /\ UNCHANGED <<mode, purevars, args, tree, files, pathlist, path, lasttz,
                   tzstr, originaldatetime, utcdatetime, replaceinput, outcome,
                   presented, repeats, systz, agreement>>

\* lines 257-258: the worklist is empty
Finish ==
    /\ mode = "main" /\ pc = "loop" /\ Len(pathlist) = 0
    /\ pc' = "done"
    /\ UNCHANGED <<mode, purevars, args, tree, files, pathlist, path, lasttz,
                   tzstr, originaldatetime, utcdatetime, replaceinput, outcome,
                   presented, repeats, systz, agreement>>

Next ==
    \/ Start
    \/ AnswerDisclaimer
    \/ PopMissing
    \/ PopDirectory
    \/ PopNotImage
    \/ PopImage
    \/ AnswerTimezone
    \/ AnswerReplace
    \/ UserExit
    \/ Finish

Spec == InitMain /\ [][Next]_vars

\* The program is one thread that runs until it ends, so each of its own
\* steps is taken once it can be. At a prompt the user, who gives only
\* finitely many unrecognised answers, in the end gives one that leaves
\* the prompt; Repeat answers are bounded by MaxRepeats. Nothing obliges
\* the user to end the input.
\* when PopImage can be taken: the head of the worklist is an image file
PopImageEnabled ==
    /\ mode = "main" /\ pc = "loop" /\ Len(pathlist) > 0
    /\ isfile(Head(pathlist)) /\ isimage(Head(pathlist))

\* when an answer can leave the timezone prompt: always, once it is shown
AnswerTimezoneEnabled == mode = "main" /\ pc = "tzprompt"

\* weak fairness of every step of the program and of the answers that
\* leave a prompt; for PopImage and AnswerTimezone it is written out, with
\* the step's enabling condition given as a state predicate
Fairness ==
    /\ WF_vars(Start)
    /\ WF_vars(PopMissing)
    /\ WF_vars(PopDirectory)
    /\ WF_vars(PopNotImage)
    /\ ([]<>(~ PopImageEnabled) \/ []<><<PopImage>>_vars)
    /\ WF_vars(Finish)
    /\ WF_vars(AnswerDisclaimer /\ pc' # pc)
    /\ ([]<>(~ AnswerTimezoneEnabled) \/ []<><<AnswerTimezone /\ pc' # pc>>_vars)
    /\ WF_vars(AnswerReplace /\ pc' # pc)

\* a file with the tags of the end-to-end scenario
ScenarioFile ==
    [Zeroth |-> (TAG_MAKE :> <<"X">>),
     Exif |-> (EXIF_DATE_TIME_ORIGINAL :> TEXT_ORIGINAL),
     GPS |-> (EXIF_GPS_DATE :> TEXT_GPS_DATE @@ EXIF_GPS_TIME :> TUPLE_GPS_TIME)]

\* the runs followed to their end: the whole tree, at most one file that
\* is not the well-formed scenario, an offset given or asked for
InitFair ==
    /\ InitMain
    /\ tree = AllNodes
    /\ Cardinality({ f \in AllFiles : files[f] # ScenarioFile }) <= 1
    /\ args.timezone \in { << >>, <<"-", "0", "9", "0", "0">> }
    /\ systz = <<"+", "0", "0", "0", "0">>

SpecFair == InitFair /\ [][Next]_vars /\ Fairness

----------------------------------------------------------------------------
(* Properties of the timezone conversion                                   *)

\* The text without the one newline that may end it
TzBody(s) ==
    IF Len(s) > 0 /\ s[Len(s)] = "\n" THEN SubSeq(s, 1, Len(s) - 1) ELSE s

\* The shape {+|-}HHMM read positionally: a sign, then four digits making
\* hours 00-29 and minutes 00-59
TzWellFormed(s) ==
    LET b == TzBody(s)
    IN  /\ Len(b) = 5
        /\ b[1] \in {"+", "-"}
        /\ \A i \in 2..5 : b[i] \in Digits
        /\ DigitVal(b[2]) * 10 + DigitVal(b[3]) <= 29
        /\ DigitVal(b[4]) * 10 + DigitVal(b[5]) <= 59

\* HH*3600 + MM*60, negated after a minus sign
TzSeconds(s) ==
    LET b   == TzBody(s)
        mag == (DigitVal(b[2]) * 10 + DigitVal(b[3])) * 3600
                 + (DigitVal(b[4]) * 10 + DigitVal(b[5])) * 60
    IN  IF b[1] = "-" THEN -mag ELSE mag

\* C2: tzoffset_to_timedelta succeeds exactly on the texts the pattern
\* matches, there returning HH*3600 + MM*60 seconds, negated for '-', as a
\* normalised duration; on every other text it raises the invalid-format
\* ValueError and returns no duration.
C2_ParseExactlyOnPattern ==
    (mode = "tz" /\ tzout # Pending) =>
        IF TzWellFormed(tzin)
        THEN /\ ~ Raised(tzout)
             /\ tzout.seconds \in 0..(24 * 3600 - 1)
             /\ tzout.days * 24 * 3600 + tzout.seconds = TzSeconds(tzin)
        ELSE tzout = [exc |-> "ValueError"]

\* C2 witness: -0800 has been converted, to exactly minus eight hours
C2_Witness ==
    /\ mode = "tz"
    /\ tzin = <<"-", "0", "8", "0", "0">>
    /\ tzout = [days |-> -1, seconds |-> 16 * 3600]

\* C7: every accepted offset has magnitude at most 23 hours 59 minutes.
C7_OffsetWithinDay ==
    (mode = "tz" /\ tzout # Pending /\ ~ Raised(tzout)) =>
        /\ total_seconds(tzout) <= 23 * 3600 + 59 * 60
        /\ total_seconds(tzout) >= -(23 * 3600 + 59 * 60)

----------------------------------------------------------------------------
(* Properties of the UTC conversion                                        *)

\* Days from 1970-01-01 to a civil date, by the era / year-of-era /
\* day-of-year count (not the ordinal arithmetic the conversion uses)
DaysFromCivil(y, m, d) ==
    LET yy  == IF m <= 2 THEN y - 1 ELSE y
        era == yy \div 400
        yoe == yy - era * 400
        mp  == IF m > 2 THEN m - 3 ELSE m + 9
        doy == ((153 * mp + 2) \div 5) + d - 1
        doe == yoe * 365 + (yoe \div 4) - (yoe \div 100) + doy
    IN  era * 146097 + doe - 719468

SecondOfDay(dt) == dt.hour * 3600 + dt.minute * 60 + dt.second

IsCalendarTimestamp(dt) ==
    /\ dt.year \in 1..9999
    /\ dt.month \in 1..12
    /\ dt.day \in 1..(IF dt.month = 2
                      THEN (IF (dt.year % 4 = 0 /\ dt.year % 100 # 0)
                               \/ dt.year % 400 = 0 THEN 29 ELSE 28)
                      ELSE IF dt.month \in {4, 6, 9, 11} THEN 30 ELSE 31)
    /\ dt.hour \in 0..23 /\ dt.minute \in 0..59 /\ dt.second \in 0..59

\* C1: the UTC timestamp computed for a file is local minus the signed
\* offset, the date rolling forward or back across midnight; the only
\* other outcome is OverflowError, exactly when local minus offset falls
\* outside 0001-01-01 .. 9999-12-31.
C1_UtcIsLocalMinusOffset ==
    (mode = "utc" /\ utcout # Pending) =>
        LET shifted == SecondOfDay(localin) - TzSeconds(tzin)
            day     == DaysFromCivil(localin.year, localin.month, localin.day)
                         + (shifted \div (24 * 3600))
        IN  IF day < DaysFromCivil(1, 1, 1) \/ day > DaysFromCivil(9999, 12, 31)
            THEN utcout = [exc |-> "OverflowError"]
            ELSE /\ ~ Raised(utcout)
                 /\ IsCalendarTimestamp(utcout)
                 /\ DaysFromCivil(utcout.year, utcout.month, utcout.day) = day
                 /\ SecondOfDay(utcout) = shifted % (24 * 3600)

\* C1 witness: 2023-06-01 14:00:00 at -0900 has become 2023-06-01 23:00:00,
\* which encodes as 2023:06:01 and (23,1),(0,1),(0,1)
C1_Witness ==
    /\ mode = "utc"
    /\ localin = [year |-> 2023, month |-> 6, day |-> 1,
                  hour |-> 14, minute |-> 0, second |-> 0]
    /\ tzin = <<"-", "0", "9", "0", "0">>
    /\ utcout # Pending
    /\ ~ Raised(utcout)
    /\ gpsdate_of(utcout, libcpads)
         = <<"2", "0", "2", "3", ":", "0", "6", ":", "0", "1">>
    /\ gpstime_of(utcout, libcpads) = << <<23, 1>>, <<0, 1>>, <<0, 1>> >>

----------------------------------------------------------------------------
(* Properties of decoding and encoding                                     *)

HasGpsTags(tags) ==
    /\ EXIF_GPS_DATE \in DOMAIN tags.GPS
    /\ EXIF_GPS_TIME \in DOMAIN tags.GPS

UnitDenominators(t) == \A i \in 1..3 : t[i][2] = 1

\* the decoded GPS timestamp has been encoded and written
RoundTripped ==
    /\ mode = "codec"
    /\ written # Pending
    /\ ~ Raised(decoded)
    /\ newdt = decoded.gpsdatetime
    /\ UnitDenominators(tagsin.GPS[EXIF_GPS_TIME])

SameGpsStamp ==
    /\ written.GPS[EXIF_GPS_DATE] = tagsin.GPS[EXIF_GPS_DATE]
    /\ written.GPS[EXIF_GPS_TIME] = tagsin.GPS[EXIF_GPS_TIME]

\* YYYY:MM:DD in ASCII digits, every field zero-padded, the year 1000 or later
CanonicalDate(d) ==
    /\ Len(d) = 10
    /\ d[5] = ":" /\ d[8] = ":"
    /\ \A i \in {1, 2, 3, 4, 6, 7, 9, 10} : d[i] \in Digits
    /\ d[1] # "0"

\* C8 as stated: encoding the decoded GPS timestamp gives back exactly
\* (d, t) for every denominator-1 input that decodes, also when d is not
\* zero-padded or otherwise non-canonical.
C8_RoundTripAnyAcceptedForm == RoundTripped => SameGpsStamp

\* C8 amended: encoding the decoded GPS timestamp gives back exactly (d, t)
\* for every denominator-1 input that decodes and whose date text d is
\* already the canonical zero-padded YYYY:MM:DD with a year of 1000 or more.
C8_RoundTripCanonical ==
    (RoundTripped /\ CanonicalDate(tagsin.GPS[EXIF_GPS_DATE])) => SameGpsStamp

\* C8 witness: a canonical date with a one-digit minute has gone round
C8_Witness ==
    /\ RoundTripped
    /\ tagsin.GPS[EXIF_GPS_DATE]
         = <<"2", "0", "2", "3", ":", "0", "6", ":", "2", "9">>
    /\ tagsin.GPS[EXIF_GPS_TIME] = << <<23, 1>>, <<7, 1>>, <<59, 1>> >>
    /\ SameGpsStamp

\* C9: decoding a GPS time with a zero denominator in any of its three
\* pairs fails; no timestamp is produced from it.
C9_ZeroDenominatorRejected ==
    (/\ mode = "codec"
     /\ decoded # Pending
     /\ HasGpsTags(tagsin)
     /\ \E i \in 1..3 : tagsin.GPS[EXIF_GPS_TIME][i][2] = 0)
        => Raised(decoded)

\* C10: setgpsdatetime changes only GPSDateStamp and GPSTimeStamp: every
\* other tag of every IFD is present with the value it had, and no other
\* tag appears.
C10_OnlyGpsStampChanges ==
    (mode = "codec" /\ written # Pending) =>
        /\ DOMAIN written = DOMAIN tagsin
        /\ \A ifd \in DOMAIN tagsin :
              LET stamp == IF ifd = "GPS"
                           THEN {EXIF_GPS_DATE, EXIF_GPS_TIME} ELSE {}
              IN  /\ (DOMAIN written[ifd]) \ stamp = (DOMAIN tagsin[ifd]) \ stamp
                  /\ \A tag \in (DOMAIN tagsin[ifd]) \ stamp :
                        written[ifd][tag] = tagsin[ifd][tag]

\* C10 witness: a file with DateTimeOriginal, Make and GPSLatitude has had
\* its GPS date and time replaced by different values
C10_Witness ==
    /\ mode = "codec"
    /\ written # Pending
    /\ EXIF_DATE_TIME_ORIGINAL \in DOMAIN tagsin.Exif
    /\ TAG_MAKE \in DOMAIN tagsin.Zeroth
    /\ TAG_GPS_LATITUDE \in DOMAIN tagsin.GPS
    /\ HasGpsTags(tagsin)
    /\ written.GPS[EXIF_GPS_DATE] # tagsin.GPS[EXIF_GPS_DATE]
    /\ written.GPS[EXIF_GPS_TIME] # tagsin.GPS[EXIF_GPS_TIME]

----------------------------------------------------------------------------
(* Properties of the main loop                                             *)

\* C3: once the replace step has run for a file (answer Y, or --auto), the
\* file's GPSDateStamp and GPSTimeStamp are the EXIF encoding of its
\* DateTimeOriginal minus the chosen offset.
C3_ConfirmedFileIsRewritten ==
    (mode = "main" /\ outcome = "replaced") =>
        LET utc == utc_of(getdatetime(files[path]).originaldatetime, tzstr)
        IN  /\ files[path].GPS[EXIF_GPS_DATE] = gpsdate_of(utc, libcpads)
            /\ files[path].GPS[EXIF_GPS_TIME] = gpstime_of(utc, libcpads)

\* C4: the replace step is reached only on the answer Y (in either case)
\* to the replace prompt of that presentation, or under --auto; N, R and
\* unrecognised answers never lead to it.
C4_ReplaceOnlyWhenConfirmed ==
    (mode = "main" /\ outcome = "replaced") =>
        (args.auto \/ replaceinput \in { <<"Y">>, <<"y">> })

\* C4 witness: without --auto, a file was shown and Y led to the replace step
C4_Witness ==
    /\ mode = "main"
    /\ ~ args.auto
    /\ outcome = "replaced"
    /\ replaceinput = <<"Y">>
    /\ presented[path] = 1

IsUnder(f, p) == Len(p) <= Len(f) /\ SubSeq(f, 1, Len(p)) = p

\* the image files at or below the paths given on the command line
ReachableImages ==
    { f \in AllFiles \cap tree :
        /\ files[f] # NOEXIF
        /\ \E i \in 1..Len(args.pathlist) : IsUnder(f, args.pathlist[i]) }

\* C5: without Repeat answers no file is presented more than once, and
\* when the program finishes every reachable image has been presented
\* exactly once, for every tree and either setting of --recursive.
C5_EachFileExactlyOnce ==
    (mode = "main" /\ repeats = 0) =>
        /\ \A f \in AllFiles : presented[f] <= 1
        /\ pc = "done" => \A f \in ReachableImages : presented[f] = 1

\* C6: a file whose timestamps cannot be decoded ends the processing of
\* that file only: the program does not end on the decoding error with
\* existing files or directories still on the worklist.
C6_DecodeErrorKeepsBatch ==
    (/\ mode = "main"
     /\ pc = "crashed"
     /\ outcome \in {"KeyError", "IndexError", "ValueError"})
        => \A i \in 1..Len(pathlist) : ~ exists(pathlist[i])

----------------------------------------------------------------------------
(* Properties of the repeated correction                                   *)

----------------------------------------------------------------------------
(* Properties of the timezone prompt                                       *)

\* C12: every text the main loop hands to tzoffset_to_timedelta matches
\* the timezone pattern and is converted without the invalid-format error;
\* a --timezone that does not match ends the program before the loop, and
\* an entry (or an empty entry's default) that does not match is never
\* handed on.
C12_HandedOffsetMatchesPattern ==
    (mode = "main" /\ tzout # Pending) =>
        /\ re_search(REGEX_TIMEZONE, tzin)
        /\ ~ Raised(tzout)

\* C12 witness: -0900 was handed on and converted for one presentation;
\* at a later one the user typed 0800 and the program is at the timezone
\* prompt again, 0800 not handed on
C12_Witness ==
    /\ mode = "main"
    /\ args.timezone = << >>
    /\ tzin = <<"-", "0", "9", "0", "0">>
    /\ tzout = [days |-> -1, seconds |-> 15 * 3600]
    /\ pc = "tzprompt"
    /\ tzstr = <<"0", "8", "0", "0">>
    /\ lasttz = tzin

----------------------------------------------------------------------------
(* Properties of the worklist's termination                                *)

\* C13: once the worklist loop is entered it eventually empties the path
\* list and reaches the finish message, whatever the tree and --recursive,
\* given finitely many Repeat and unrecognised answers (and unless the user
\* ends the input at a prompt).
C13_WorklistLoopFinishes ==
    (mode = "main" /\ pc = "loop") ~> (pc \in {"done", "userexit"})

====
